---- MODULE Spec2Model ----
(***************************************************************************)
(* Model of label_assist (src/main.py): the ConvertWorker thread, the      *)
(* MainWindow handlers that drive it, the hidden-.jpg cleanup pass, the    *)
(* tool lookup (_find_ffmpeg / _find_uvx) and the files they read and      *)
(* write.                                                                  *)
(*                                                                         *)
(* Representation.  File names are sequences of one-character strings so   *)
(* that startswith / endswith / lower are computed, not assumed.  Texts    *)
(* that the code strips (environment values, line-edit contents, stderr)   *)
(* are sequences of tokens, a token being a whitespace character or an     *)
(* opaque non-blank word; strip() removes the blank tokens at both ends.   *)
(***************************************************************************)
EXTENDS Integers, Sequences, FiniteSets, TLC

VARIABLES
    fsDirs,            \* directory path -> [kind, readable, entries, frames]
    fsFiles,           \* executable candidate path -> "missing" | "plain" | "exec"
    fsVideo,           \* video path -> BOOLEAN (os.path.exists)
    listOrder,         \* the order os.listdir reports names in (stable per run)
    environ,           \* os.environ: variable name -> text
    video_path_input,  \* MainWindow.video_path_input.text()
    output_dir_input,  \* MainWindow.output_dir_input.text()
    convert_btn,       \* MainWindow.convert_btn.isEnabled()
    status_label,      \* MainWindow.status_label.text()
    progress_bar,      \* MainWindow.progress_bar: [busy, value]
    worker,            \* MainWindow.worker: the ConvertWorker thread
    queue,             \* signals emitted by worker threads, not yet delivered to the GUI thread
    child,             \* the extractor child process of the running worker
    labelme,           \* LabelmeWorker threads and the annotation tools spawned
    probe              \* result of the last lookup / count / cleanup applied on its own

vars == <<fsDirs, fsFiles, fsVideo, listOrder, environ, video_path_input,
          output_dir_input, convert_btn, status_label, progress_bar,
          worker, queue, child, labelme, probe>>

-----------------------------------------------------------------------------
(* Strings *)

\* str.lower() on one character; only the letters the names use are listed.
LowerChar(c) ==
    CASE c = "J" -> "j"
      [] c = "P" -> "p"
      [] c = "G" -> "g"
      [] c = "I" -> "i"
      [] c = "M" -> "m"
      [] OTHER -> c

\* str.lower()
Lower(s) == [i \in 1..Len(s) |-> LowerChar(s[i])]

\* str.startswith(prefix)
StartsWith(s, prefix) ==
    /\ Len(s) >= Len(prefix)
    /\ SubSeq(s, 1, Len(prefix)) = prefix

\* str.endswith(suffix)
EndsWith(s, suffix) ==
    /\ Len(s) >= Len(suffix)
    /\ SubSeq(s, Len(s) - Len(suffix) + 1, Len(s)) = suffix

Blank == {" ", "\n", "\t"}

RECURSIVE LStrip(_)
LStrip(t) == IF t # <<>> /\ Head(t) \in Blank THEN LStrip(Tail(t)) ELSE t

RECURSIVE RStrip(_)
RStrip(t) ==
    IF t # <<>> /\ t[Len(t)] \in Blank THEN RStrip(SubSeq(t, 1, Len(t) - 1)) ELSE t

\* str.strip()
Strip(t) == RStrip(LStrip(t))

\* The Python string a stripped one-word text denotes ("" for the empty text).
Str(t) == IF t = <<>> THEN "" ELSE t[1]

DOT_JPG == <<".", "j", "p", "g">>
IMG_ == <<"i", "m", "g", "_">>
DOT == <<".">>

-----------------------------------------------------------------------------
(* File names and directories *)

\* img_00000.jpg : the first frame the extractor writes (pattern img_%05d.jpg)
N_frame0 == <<"i","m","g","_","0","0","0","0","0",".","j","p","g">>
\* img_00001.JPG : frame-like name with an upper-case extension
N_frameUpper == <<"i","m","g","_","0","0","0","0","1",".","J","P","G">>
\* img_x.jpg : img_ prefix, no numeric index
N_imgx == <<"i","m","g","_","x",".","j","p","g">>
\* .partial_0001.jpg : hidden partial write left by a crashed run
N_partial == <<".","p","a","r","t","i","a","l","_","0","0","0","1",".","j","p","g">>
\* .thumb.JPG : hidden file with an upper-case extension
N_thumbUpper == <<".","t","h","u","m","b",".","J","P","G">>
\* notes.txt : unrelated file
N_notes == <<"n","o","t","e","s",".","t","x","t">>

Names == {N_frame0, N_frameUpper, N_imgx, N_partial, N_thumbUpper, N_notes}

\* Two listing orders of the names (os.listdir reports "arbitrary order").
ListOrder1 == <<N_frame0, N_partial, N_frameUpper, N_thumbUpper, N_imgx, N_notes>>
ListOrder2 == <<N_notes, N_thumbUpper, N_imgx, N_partial, N_frameUpper, N_frame0>>
ListOrders == {ListOrder1, ListOrder2}

\* What a name is in a directory: nothing, a regular file, a regular file whose
\* removal fails (os.remove raises), or a sub-directory.
EntryKinds == {"none", "file", "locked", "dir"}

Digits == {"0","1","2","3","4","5","6","7","8","9"}

\* The canonical pattern img_NNNNN.jpg: img_, a zero-padded numeric index of at
\* least five digits, .jpg
IsCanonicalName(name) ==
    /\ Len(name) >= Len(IMG_) + 5 + Len(DOT_JPG)
    /\ StartsWith(name, IMG_)
    /\ EndsWith(name, DOT_JPG)
    /\ \A i \in (Len(IMG_) + 1)..(Len(name) - Len(DOT_JPG)) : name[i] \in Digits

NoEntries == [n \in Names |-> "none"]

AbsentDir == [kind |-> "absent", readable |-> TRUE, entries |-> NoEntries, frames |-> 0]
EmptyDir == [kind |-> "dir", readable |-> TRUE, entries |-> NoEntries, frames |-> 0]
\* the path is taken by a regular file
FileAtPath == [kind |-> "file", readable |-> TRUE, entries |-> NoEntries, frames |-> 0]

DirPathA == "/data/a"
DirPathOut == "/data/out"
DirPaths == {DirPathA, DirPathOut}

\* os.path.exists(path), os.path.isdir(path) for a directory path
PathExists(dirs, path) == path \in DOMAIN dirs /\ dirs[path].kind # "absent"
IsDir(dirs, path) == path \in DOMAIN dirs /\ dirs[path].kind = "dir"

\* os.listdir(path) raises
ListdirRaises(dirs, path) == ~IsDir(dirs, path) \/ ~dirs[path].readable

\* os.listdir(path): the named entries, in listing order (the bulk frames
\* img_NNNNN.jpg counted by .frames are not named one by one)
Listdir(dirs, path, order) ==
    SelectSeq(order, LAMBDA n : dirs[path].entries[n] # "none")

\* os.listdir(path) is non-empty
ListdirNonEmpty(dirs, path, order) ==
    Listdir(dirs, path, order) # <<>> \/ dirs[path].frames > 0

\* os.makedirs(path, exist_ok=True) raises (FileExistsError)
MakedirsRaises(dirs, path) == path \notin DOMAIN dirs \/ dirs[path].kind = "file"

\* os.makedirs(path, exist_ok=True)
Makedirs(dirs, path) ==
    IF dirs[path].kind = "absent" THEN [dirs EXCEPT ![path] = EmptyDir] ELSE dirs

\* CountsAsFrame without the test on the img_ prefix
CountsAsFrameAnyJpg(name) == EndsWith(Lower(name), DOT_JPG)

\* ConvertWorker._count_frames: the filter of the list comprehension
CountsAsFrame(name) == EndsWith(Lower(name), DOT_JPG) /\ StartsWith(name, IMG_)

\* ConvertWorker._count_frames
_count_frames(dirs, output_dir, order) ==
    IF ListdirRaises(dirs, output_dir)
    THEN 0
    ELSE Cardinality({i \in 1..Len(Listdir(dirs, output_dir, order)) :
                          CountsAsFrame(Listdir(dirs, output_dir, order)[i])})
         + dirs[output_dir].frames

\* IsDotJpg without the test on the first character
IsDotJpgAnyJpg(name) == EndsWith(Lower(name), DOT_JPG)

\* MainWindow._cleanup_dot_jpgs: the test that selects a name
IsDotJpg(name) == StartsWith(name, DOT) /\ EndsWith(Lower(name), DOT_JPG)

\* CleanupLoop leaving the loop after the first removal
RECURSIVE CleanupLoopBreak(_, _)
CleanupLoopBreak(entries, listing) ==
    IF listing = <<>> THEN entries
    ELSE LET name == Head(listing) IN
         IF ~(StartsWith(name, DOT) /\ EndsWith(Lower(name), DOT_JPG))
         THEN CleanupLoopBreak(entries, Tail(listing))
         ELSE IF entries[name] = "locked" THEN entries
         ELSE IF entries[name] = "file" THEN [entries EXCEPT ![name] = "none"]
         ELSE CleanupLoopBreak(entries, Tail(listing))

\* MainWindow._cleanup_dot_jpgs: the for loop over the listing; a raising
\* os.remove ends the loop (the try block wraps the whole loop)
RECURSIVE CleanupLoop(_, _)
CleanupLoop(entries, listing) ==
    IF listing = <<>> THEN entries
    ELSE LET name == Head(listing) IN
         IF ~IsDotJpg(name) THEN CleanupLoop(entries, Tail(listing))
         ELSE IF entries[name] = "locked" THEN entries
         ELSE IF entries[name] = "file"
              THEN CleanupLoop([entries EXCEPT ![name] = "none"], Tail(listing))
         ELSE CleanupLoop(entries, Tail(listing))

\* MainWindow._cleanup_dot_jpgs, on the directory the line edit names now
_cleanup_dot_jpgs(dirs, text, order) ==
    LET output_dir == Str(Strip(text)) IN
    IF output_dir = "" \/ ~IsDir(dirs, output_dir) THEN dirs
    ELSE IF ListdirRaises(dirs, output_dir) THEN dirs
    ELSE [dirs EXCEPT ![output_dir].entries =
              CleanupLoop(@, Listdir(dirs, output_dir, order))]

\* The call of _cleanup_dot_jpgs that raises OSError on the directories as they
\* are: os.listdir (line 281), or os.remove (line 287) on a selected file
CleanupErrors(dirs, text, order) ==
    LET output_dir == Str(Strip(text)) IN
    IF output_dir = "" \/ ~IsDir(dirs, output_dir) THEN {}
    ELSE IF ListdirRaises(dirs, output_dir) THEN {"os.listdir"}
    ELSE IF \E n \in Names : /\ IsDotJpg(n)
                             /\ dirs[output_dir].entries[n] = "locked"
         THEN {"os.remove"}
    ELSE {}

\* the calls inside the try block of lines 280-289, whose except clause
\* catches Exception, hence every OSError
CleanupTryBlock == {"os.listdir", "os.remove"}

\* CleanupRaises with the try block left out
CleanupRaisesNoTry(dirs, text, order) == CleanupErrors(dirs, text, order) # {}

\* an exception leaves _cleanup_dot_jpgs and ends the slot that called it
CleanupRaises(dirs, text, order) ==
    CleanupErrors(dirs, text, order) \ CleanupTryBlock # {}

-----------------------------------------------------------------------------
(* Executables and their lookup *)

\* What an executable candidate path is on disk: nothing, a regular file without
\* the execute bit, a regular file with it, or a directory.
FileKinds == {"missing", "plain", "exec", "dir"}

\* Python's None, as returned by _find_ffmpeg / _find_uvx
None == "None"

\* a path outside the candidate lists, for the environment overrides
CustomFfmpeg == "/opt/ffmpeg/bin/ffmpeg"
CustomUvx == "/opt/uv/bin/uvx"

\* os.path.expanduser for the candidate paths (home of the running user)
ExpandUser(path) ==
    CASE path = "~/.local/bin/ffmpeg" -> "/home/user/.local/bin/ffmpeg"
      [] path = "~/.cargo/bin/uvx" -> "/home/user/.cargo/bin/uvx"
      [] path = "~/.local/bin/uvx" -> "/home/user/.local/bin/uvx"
      [] OTHER -> path

\* MainWindow._find_ffmpeg: candidate_paths
FfmpegCandidates ==
    << ExpandUser("~/.local/bin/ffmpeg"),
       "/usr/local/bin/ffmpeg",
       "/opt/homebrew/bin/ffmpeg",
       "/usr/bin/ffmpeg" >>

\* MainWindow._find_uvx: candidate_paths
UvxCandidates ==
    << ExpandUser("~/.cargo/bin/uvx"),
       ExpandUser("~/.local/bin/uvx"),
       "/usr/local/bin/uvx",
       "/opt/homebrew/bin/uvx" >>

Range(seq) == {seq[i] : i \in 1..Len(seq)}

FfmpegPaths == Range(FfmpegCandidates) \cup {CustomFfmpeg}
UvxPaths == Range(UvxCandidates) \cup {CustomUvx}
ToolPaths == FfmpegPaths \cup UvxPaths

\* os.path.isfile(path)
IsFile(files, path) == path \in DOMAIN files /\ files[path] \in {"plain", "exec"}

\* os.access(path, os.X_OK)
AccessX(files, path) == path \in DOMAIN files /\ files[path] \in {"exec", "dir"}

\* FirstCandidate without the os.access test
RECURSIVE FirstCandidateAnyFile(_, _)
FirstCandidateAnyFile(files, candidates) ==
    IF candidates = <<>> THEN None
    ELSE IF IsFile(files, Head(candidates))
         THEN Head(candidates)
         ELSE FirstCandidateAnyFile(files, Tail(candidates))

RECURSIVE FirstCandidate(_, _)
\* The loop over candidate_paths: the first candidate that is an executable
\* file, None when there is none
FirstCandidate(files, candidates) ==
    IF candidates = <<>> THEN None
    ELSE IF IsFile(files, Head(candidates)) /\ AccessX(files, Head(candidates))
         THEN Head(candidates)
         ELSE FirstCandidate(files, Tail(candidates))

\* FindTool trying the candidate list before the override
FindToolListFirst(env, files, variable, candidates) ==
    LET env_path == Str(Strip(env[variable]))
        found == FirstCandidate(files, candidates)
    IN
    IF found # None THEN found
    ELSE IF env_path # "" /\ IsFile(files, env_path) /\ AccessX(files, env_path)
         THEN env_path
         ELSE None

\* The body shared by _find_ffmpeg and _find_uvx: the override, then the list
FindTool(env, files, variable, candidates) ==
    LET env_path == Str(Strip(env[variable])) IN
    IF env_path # "" /\ IsFile(files, env_path) /\ AccessX(files, env_path)
    THEN env_path
    ELSE FirstCandidate(files, candidates)

\* MainWindow._find_ffmpeg
_find_ffmpeg(env, files) == FindTool(env, files, "FFMPEG_PATH", FfmpegCandidates)

\* MainWindow._find_uvx
_find_uvx(env, files) == FindTool(env, files, "UVX_PATH", UvxCandidates)

-----------------------------------------------------------------------------
(* The program state *)

VideoA == "/data/a.mp4"
Videos == {VideoA}

\* MainWindow._default_output_dir: dirname joined with the name without extension
_default_output_dir(video_path) ==
    CASE video_path = VideoA -> DirPathA
      [] OTHER -> video_path

\* ConvertWorker._convert_video line 81: the frame-count ceiling
FRAME_LIMIT == 999999

\* A signal emitted by a worker thread, queued for the GUI thread
Signal(sig, n, text) == [sig |-> sig, n |-> n, text |-> text]

\* The message texts are given in English; the source has them in Chinese.
MSG_NO_VIDEO == "video file does not exist"
MSG_NO_FFMPEG == "ffmpeg not found, install it and retry"
MSG_FFMPEG_FAILED == "ffmpeg conversion failed"
MSG_TOO_MANY == "more than 999999 frames, aborted"
MSG_STARTING == "conversion starting..."
MSG_DONE == "conversion done"
\* str(exc) of the OSError os.makedirs raises, and of the one subprocess.run raises
MSG_FILE_EXISTS == "[Errno 17] File exists"
MSG_PERMISSION == "[Errno 13] Permission denied"

NoRequest == [video_path |-> "", output_dir |-> "", ffmpeg_path |-> ""]
NoWorker == [pc |-> "none", request |-> NoRequest, emitted |-> <<>>]
NoChild == [state |-> "none", returncode |-> 0, stderr |-> <<>>]
NoProbe == [op |-> "none"]

\* MainWindow.__init__ / _build_ui
GuiInit ==
    /\ video_path_input = <<>>
    /\ output_dir_input = <<>>
    /\ convert_btn = TRUE
    /\ status_label = ""
    /\ progress_bar = [busy |-> FALSE, value |-> 0]
    /\ worker = NoWorker
    /\ queue = <<>>
    /\ child = NoChild
    /\ labelme = <<>>
    /\ probe = NoProbe

\* A directory as a crashed earlier run left it
PriorRunDir ==
    [kind |-> "dir", readable |-> TRUE, frames |-> 0,
     entries |-> [n \in Names |->
                    IF n \in {N_partial, N_imgx} THEN "file" ELSE "none"]]

AllMissing == [p \in ToolPaths |-> "missing"]

\* the candidate files that come and go while the program runs
VaryingFfmpeg == "/usr/bin/ffmpeg"
VaryingUvx == "/usr/local/bin/uvx"

Init ==
    /\ GuiInit
    /\ \E d \in {AbsentDir, PriorRunDir} :
          fsDirs = [p \in DirPaths |-> IF p = DirPathA THEN d ELSE PriorRunDir]
    /\ \E k \in {"missing", "exec"} :
          fsFiles = [AllMissing EXCEPT ![VaryingFfmpeg] = k, ![VaryingUvx] = "exec"]
    /\ fsVideo \in [Videos -> BOOLEAN]
    /\ listOrder = ListOrder1
    /\ environ = [v \in {"FFMPEG_PATH", "UVX_PATH"} |-> <<>>]

-----------------------------------------------------------------------------
(* MainWindow: the handlers of the GUI thread *)

MSG_CHOOSE_VIDEO == "choose a video file first"
MSG_CHOOSE_OUTPUT == "choose an output directory first"
MSG_FFMPEG_MISSING == "ffmpeg not found, install it or set FFMPEG_PATH"
MSG_PREPARING == "preparing..."
MSG_LABELME_STARTING == "Labelme starting..."
MSG_LABELME_STARTED == "Labelme started"
MSG_LAUNCH_FAILED == "launch failed: "

\* how many LabelmeWorker threads may be in flight at once
MaxLabelme == 1

\* MainWindow.choose_video; video_path is what the file dialog returned
choose_video(video_path) ==
    /\ IF video_path = ""
       THEN UNCHANGED <<video_path_input, output_dir_input>>
       ELSE /\ video_path_input' = <<video_path>>
            /\ output_dir_input' = <<_default_output_dir(video_path)>>
    /\ UNCHANGED <<fsDirs, fsFiles, fsVideo, listOrder, environ, convert_btn,
                   status_label, progress_bar, worker, queue, child,
                   labelme, probe>>

\* MainWindow.choose_output_dir; output_dir is what the directory dialog returned
choose_output_dir(output_dir) ==
    /\ IF output_dir = ""
       THEN UNCHANGED output_dir_input
       ELSE output_dir_input' = <<output_dir>>
    /\ UNCHANGED <<fsDirs, fsFiles, fsVideo, listOrder, environ, video_path_input,
                   convert_btn, status_label, progress_bar, worker,
                   queue, child, labelme, probe>>

\* StartWorker without the setEnabled(False) of line 219
StartWorkerKeepsEnabled(request) ==
    /\ worker' = [pc |-> "started", request |-> request, emitted |-> <<>>]
    /\ convert_btn' = convert_btn
    /\ progress_bar' = [progress_bar EXCEPT !.value = 0]
    /\ status_label' = MSG_PREPARING

\* MainWindow.start_conversion lines 208-222: the worker is created and started
StartWorker(request) ==
    /\ worker' = [pc |-> "started", request |-> request, emitted |-> <<>>]
    /\ convert_btn' = FALSE
    /\ progress_bar' = [progress_bar EXCEPT !.value = 0]
    /\ status_label' = MSG_PREPARING

\* start_conversion returns before line 208, after the _alert dialog showing
\* message when there is one (a modal dialog: it leaves no state behind)
ReturnEarly(message) ==
    UNCHANGED <<fsDirs, worker, convert_btn, progress_bar, status_label>>

\* MainWindow.start_conversion, a click on the enabled convert button; answer is
\* the user's reply to the overwrite question, when it is asked.  An exception
\* os.listdir or os.makedirs raises ends the slot.
start_conversion(answer) ==
    /\ convert_btn
    /\ LET video_path == Str(Strip(video_path_input))
           output_dir == Str(Strip(output_dir_input))
           ffmpeg_path == _find_ffmpeg(environ, fsFiles)
           request == [video_path |-> video_path, output_dir |-> output_dir,
                       ffmpeg_path |-> ffmpeg_path]
       IN
       IF video_path = "" THEN ReturnEarly(MSG_CHOOSE_VIDEO)
       ELSE IF output_dir = "" THEN ReturnEarly(MSG_CHOOSE_OUTPUT)
       ELSE IF ffmpeg_path = None \/ ffmpeg_path = ""
            THEN ReturnEarly(MSG_FFMPEG_MISSING)
       ELSE IF PathExists(fsDirs, output_dir) /\ ListdirRaises(fsDirs, output_dir)
            THEN ReturnEarly("")
       ELSE IF PathExists(fsDirs, output_dir)
               /\ ListdirNonEmpty(fsDirs, output_dir, listOrder)
            THEN IF answer # "Yes"
                 THEN ReturnEarly("")
                 ELSE StartWorker(request) /\ UNCHANGED fsDirs
       ELSE IF MakedirsRaises(fsDirs, output_dir)
            THEN ReturnEarly("")
       ELSE /\ fsDirs' = Makedirs(fsDirs, output_dir)
            /\ StartWorker(request)
    /\ UNCHANGED <<fsFiles, fsVideo, listOrder, environ, video_path_input,
                   output_dir_input, queue, child, labelme, probe>>

\* LabelmeWorker.__init__: the thread, the signals it has emitted, and the
\* annotation tool it spawns (spawned, with environment env, exited or not)
LabelmeWorker(uvx_path) ==
    [pc |-> "started", uvx_path |-> uvx_path, emitted |-> <<>>,
     spawned |-> FALSE, exited |-> FALSE, env |-> <<>>]

\* launch_labelme without the call of line 231
launch_labelmeNoCleanup ==
    /\ Len(labelme) < MaxLabelme
    /\ LET uvx_path == _find_uvx(environ, fsFiles) IN
       IF uvx_path = None \/ uvx_path = ""
       THEN UNCHANGED <<status_label, labelme>>
       ELSE /\ status_label' = MSG_LABELME_STARTING
            /\ labelme' = Append(labelme, LabelmeWorker(uvx_path))
    /\ UNCHANGED <<fsDirs, fsFiles, fsVideo, listOrder, environ, video_path_input,
                   output_dir_input, convert_btn, progress_bar, worker, queue,
                   child, probe>>

\* MainWindow.launch_labelme
launch_labelme ==
    /\ Len(labelme) < MaxLabelme
    /\ LET uvx_path == _find_uvx(environ, fsFiles) IN
       IF uvx_path = None \/ uvx_path = ""
       THEN UNCHANGED <<fsDirs, status_label, labelme>>
       ELSE /\ fsDirs' = _cleanup_dot_jpgs(fsDirs, output_dir_input, listOrder)
            /\ IF CleanupRaises(fsDirs, output_dir_input, listOrder)
               THEN UNCHANGED <<status_label, labelme>>
               ELSE /\ status_label' = MSG_LABELME_STARTING
                    /\ labelme' = Append(labelme, LabelmeWorker(uvx_path))
    /\ UNCHANGED <<fsFiles, fsVideo, listOrder, environ, video_path_input,
                   output_dir_input, convert_btn, progress_bar, worker, queue,
                   child, probe>>

\* MainWindow.on_progress_changed
on_progress_changed ==
    /\ queue # <<>> /\ Head(queue).sig = "progress_changed"
    /\ progress_bar' = IF Head(queue).n < 0
                       THEN [progress_bar EXCEPT !.busy = TRUE]
                       ELSE [busy |-> FALSE, value |-> Head(queue).n]
    /\ queue' = Tail(queue)
    /\ UNCHANGED <<fsDirs, fsFiles, fsVideo, listOrder, environ, video_path_input,
                   output_dir_input, convert_btn, status_label, worker,
                   child, labelme, probe>>

\* MainWindow.on_status_changed
on_status_changed ==
    /\ queue # <<>> /\ Head(queue).sig = "status_changed"
    /\ status_label' = Head(queue).text
    /\ queue' = Tail(queue)
    /\ UNCHANGED <<fsDirs, fsFiles, fsVideo, listOrder, environ, video_path_input,
                   output_dir_input, convert_btn, progress_bar, worker,
                   child, labelme, probe>>

\* the f-string of on_finished_ok
FinishedText(count) == "conversion done, " \o ToString(count) \o " frames"

\* MainWindow.on_finished_ok
on_finished_ok ==
    /\ queue # <<>> /\ Head(queue).sig = "finished_ok"
    /\ fsDirs' = _cleanup_dot_jpgs(fsDirs, output_dir_input, listOrder)
    /\ IF CleanupRaises(fsDirs, output_dir_input, listOrder)
       THEN UNCHANGED <<convert_btn, status_label, progress_bar>>
       ELSE /\ convert_btn' = TRUE
            /\ status_label' = FinishedText(Head(queue).n)
            /\ progress_bar' = [busy |-> FALSE, value |-> 100]
    /\ queue' = Tail(queue)
    /\ UNCHANGED <<fsFiles, fsVideo, listOrder, environ, video_path_input,
                   output_dir_input, worker, child, labelme, probe>>

\* MainWindow.on_failed
on_failed ==
    /\ queue # <<>> /\ Head(queue).sig = "failed"
    /\ convert_btn' = TRUE
    /\ progress_bar' = [busy |-> FALSE, value |-> 0]
    /\ queue' = Tail(queue)
    /\ UNCHANGED <<fsDirs, fsFiles, fsVideo, listOrder, environ, video_path_input,
                   output_dir_input, status_label, worker, child, labelme, probe>>

\* the sequence s without its i-th element
RemoveAt(s, i) == SubSeq(s, 1, i - 1) \o SubSeq(s, i + 1, Len(s))

\* MainWindow.on_labelme_started, for the signal of the i-th thread in flight
on_labelme_started(i) ==
    /\ labelme[i].emitted # <<>> /\ Head(labelme[i].emitted).sig = "started_ok"
    /\ status_label' = MSG_LABELME_STARTED
    /\ labelme' = RemoveAt(labelme, i)
    /\ UNCHANGED <<fsDirs, fsFiles, fsVideo, listOrder, environ, video_path_input,
                   output_dir_input, convert_btn, progress_bar, worker,
                   queue, child, probe>>

\* MainWindow.on_labelme_failed, for the signal of the i-th thread in flight
on_labelme_failed(i) ==
    /\ labelme[i].emitted # <<>> /\ Head(labelme[i].emitted).sig = "failed"
    /\ status_label' = ""
    /\ labelme' = RemoveAt(labelme, i)
    /\ UNCHANGED <<fsDirs, fsFiles, fsVideo, listOrder, environ, video_path_input,
                   output_dir_input, convert_btn, progress_bar, worker, queue,
                   child, probe>>

-----------------------------------------------------------------------------
(* ConvertWorker: the conversion thread and its extractor child process *)

\* the signals emitted, in order; the thread goes on to pc
Emit(signals, pc) ==
    /\ worker' = [worker EXCEPT !.emitted = @ \o signals, !.pc = pc]
    /\ queue' = queue \o signals

\* Fail without the emit of line 42
FailSilently(before, message) == Emit(before, "done")

\* ConvertWorker.run line 42: the exception caught, failed emitted, run returns
Fail(before, message) ==
    Emit(before \o <<Signal("failed", 0, message)>>, "done")

\* StartingSignals with the two emits in the other order
StartingSignalsStatusFirst ==
    << Signal("status_changed", 0, MSG_STARTING), Signal("progress_changed", -1, "") >>

\* lines 57-58
StartingSignals ==
    << Signal("progress_changed", -1, ""), Signal("status_changed", 0, MSG_STARTING) >>

\* lines 83-85
SuccessSignals(frame_index) ==
    << Signal("progress_changed", 100, ""), Signal("status_changed", 0, MSG_DONE),
       Signal("finished_ok", frame_index, "") >>

\* SourceExists with the test of line 49 left out
SourceExistsUnchecked(files, video_path) == TRUE

\* os.path.exists(video_path), line 49
SourceExists(files, video_path) == video_path \in DOMAIN files /\ files[video_path]

\* ConvertWorker.run / _convert_video lines 44-76, up to the start of the child
\* process in subprocess.run (which raises when the file cannot be executed)
ConvertStart ==
    /\ worker.pc = "started"
    /\ LET video_path == worker.request.video_path
           output_dir == worker.request.output_dir
           ffmpeg_path == worker.request.ffmpeg_path
       IN
       IF ~SourceExists(fsVideo, video_path)
       THEN Fail(<<>>, MSG_NO_VIDEO) /\ UNCHANGED <<fsDirs, child>>
       ELSE IF MakedirsRaises(fsDirs, output_dir)
       THEN Fail(<<>>, MSG_FILE_EXISTS) /\ UNCHANGED <<fsDirs, child>>
       ELSE /\ fsDirs' = Makedirs(fsDirs, output_dir)
            /\ IF ffmpeg_path = "" \/ ffmpeg_path = None \/ ~IsFile(fsFiles, ffmpeg_path)
               THEN Fail(<<>>, MSG_NO_FFMPEG) /\ UNCHANGED child
               ELSE IF ~AccessX(fsFiles, ffmpeg_path)
               THEN Fail(StartingSignals, MSG_PERMISSION) /\ UNCHANGED child
               ELSE /\ Emit(StartingSignals, "waiting")
                    /\ child' = [state |-> "running", returncode |-> 0, stderr |-> <<>>]
    /\ UNCHANGED <<fsFiles, fsVideo, listOrder, environ, video_path_input,
                   output_dir_input, convert_btn, status_label, progress_bar,
                   labelme, probe>>

\* ConvertFinish without the ceiling test of lines 81-82
ConvertFinishNoCeiling ==
    /\ worker.pc = "waiting" /\ child.state = "exited"
    /\ IF child.returncode # 0
       THEN Fail(<<>>, IF Strip(child.stderr) # <<>>
                       THEN Str(Strip(child.stderr)) ELSE MSG_FFMPEG_FAILED)
       ELSE Emit(SuccessSignals(
                _count_frames(fsDirs, worker.request.output_dir, listOrder)), "done")
    /\ child' = NoChild
    /\ UNCHANGED <<fsDirs, fsFiles, fsVideo, listOrder, environ, video_path_input,
                   output_dir_input, convert_btn, status_label, progress_bar,
                   labelme, probe>>

\* ConvertFinish with the frames counted and tested before the exit status
ConvertFinishCountFirst ==
    /\ worker.pc = "waiting" /\ child.state = "exited"
    /\ LET frame_index == _count_frames(fsDirs, worker.request.output_dir, listOrder)
       IN
       IF frame_index > FRAME_LIMIT
       THEN Fail(<<>>, MSG_TOO_MANY)
       ELSE IF child.returncode # 0
       THEN Fail(<<>>, IF Strip(child.stderr) # <<>>
                       THEN Str(Strip(child.stderr)) ELSE MSG_FFMPEG_FAILED)
       ELSE Emit(SuccessSignals(frame_index), "done")
    /\ child' = NoChild
    /\ UNCHANGED <<fsDirs, fsFiles, fsVideo, listOrder, environ, video_path_input,
                   output_dir_input, convert_btn, status_label, progress_bar,
                   labelme, probe>>

\* ConvertWorker._convert_video lines 76-85, once the child process has exited
ConvertFinish ==
    /\ worker.pc = "waiting" /\ child.state = "exited"
    /\ LET frame_index == _count_frames(fsDirs, worker.request.output_dir, listOrder)
       IN
       IF child.returncode # 0
       THEN Fail(<<>>, IF Strip(child.stderr) # <<>>
                       THEN Str(Strip(child.stderr)) ELSE MSG_FFMPEG_FAILED)
       ELSE IF frame_index > FRAME_LIMIT
       THEN Fail(<<>>, MSG_TOO_MANY)
       ELSE Emit(SuccessSignals(frame_index), "done")
    /\ child' = NoChild
    /\ UNCHANGED <<fsDirs, fsFiles, fsVideo, listOrder, environ, video_path_input,
                   output_dir_input, convert_btn, status_label, progress_bar,
                   labelme, probe>>

\* What one run of the extractor leaves in the output directory: named files and
\* a count of frames img_NNNNN.jpg beyond the named ones
ExtractorOutputs ==
    { [names |-> {}, frames |-> 0],
      [names |-> {N_frame0, N_partial}, frames |-> 0],
      [names |-> {N_frame0}, frames |-> FRAME_LIMIT - 1] }

\* what the extractor writes on its error stream
ExtractorStderr == { <<>>, <<"\n">>, <<"Invalid data found", "\n">> }

Max(a, b) == IF a >= b THEN a ELSE b

\* The directory after the extractor wrote out into it (existing regular files
\* of the same name are overwritten)
Written(dir, out) ==
    IF dir.kind # "dir" THEN dir
    ELSE [dir EXCEPT !.entries = [n \in Names |->
                                     IF n \in out.names /\ @[n] = "none"
                                     THEN "file" ELSE @[n]],
                     !.frames = Max(@, out.frames)]

\* The extractor child process (the command of lines 61-75) writes its output
\* and exits; the worker thread is blocked in subprocess.run until then
ExtractorExit(returncode, stderr, out) ==
    /\ child.state = "running"
    /\ child' = [state |-> "exited", returncode |-> returncode, stderr |-> stderr]
    /\ fsDirs' = [fsDirs EXCEPT ![worker.request.output_dir] = Written(@, out)]
    /\ UNCHANGED <<fsFiles, fsVideo, listOrder, environ, video_path_input,
                   output_dir_input, convert_btn, status_label, progress_bar,
                   worker, queue, labelme, probe>>

-----------------------------------------------------------------------------
(* LabelmeWorker *)

LOCALE == <<"zh_CN.UTF-8">>

\* LabelmeWorker.run lines 336-339: the environment of the child
LabelmeEnv(env) ==
    [v \in DOMAIN env \cup {"LANG", "LC_ALL", "LANGUAGE"} |->
        IF v \in {"LANG", "LC_ALL", "LANGUAGE"} THEN LOCALE ELSE env[v]]

\* str(exc) of the OSError Popen raises
PopenError(files, path) ==
    IF IsFile(files, path) \/ AccessX(files, path)
    THEN MSG_PERMISSION ELSE "[Errno 2] No such file or directory"

\* LabelmeRun as if Popen were subprocess.run: the thread holds until the
\* annotation tool has exited, and emits then
LabelmeRunWaits(i) ==
    /\ labelme[i].pc = "started"
    /\ LET uvx_path == labelme[i].uvx_path IN
       IF IsFile(fsFiles, uvx_path) /\ AccessX(fsFiles, uvx_path)
       THEN labelme' = [labelme EXCEPT ![i] =
                [@ EXCEPT !.pc = "done", !.spawned = TRUE, !.exited = TRUE,
                          !.env = LabelmeEnv(environ),
                          !.emitted = @ \o <<Signal("started_ok", 0, "")>>]]
       ELSE labelme' = [labelme EXCEPT ![i] =
                [@ EXCEPT !.pc = "done",
                          !.emitted = @ \o <<Signal("failed", 0,
                              MSG_LAUNCH_FAILED \o PopenError(fsFiles, uvx_path))>>]]
    /\ UNCHANGED <<fsDirs, fsFiles, fsVideo, listOrder, environ, video_path_input,
                   output_dir_input, convert_btn, status_label, progress_bar,
                   worker, queue, child, probe>>

\* LabelmeWorker.run, for the i-th thread in flight: Popen raises unless the
\* path is an executable file, and returns as soon as the child is started
LabelmeRun(i) ==
    /\ labelme[i].pc = "started"
    /\ LET uvx_path == labelme[i].uvx_path IN
       IF IsFile(fsFiles, uvx_path) /\ AccessX(fsFiles, uvx_path)
       THEN labelme' = [labelme EXCEPT ![i] =
                [@ EXCEPT !.pc = "done", !.spawned = TRUE,
                          !.env = LabelmeEnv(environ),
                          !.emitted = @ \o <<Signal("started_ok", 0, "")>>]]
       ELSE labelme' = [labelme EXCEPT ![i] =
                [@ EXCEPT !.pc = "done",
                          !.emitted = @ \o <<Signal("failed", 0,
                              MSG_LAUNCH_FAILED \o PopenError(fsFiles, uvx_path))>>]]
    /\ UNCHANGED <<fsDirs, fsFiles, fsVideo, listOrder, environ, video_path_input,
                   output_dir_input, convert_btn, status_label, progress_bar,
                   worker, queue, child, probe>>

\* The annotation tool the i-th thread spawned exits (the user closes it)
LabelmeExit(i) ==
    /\ labelme[i].spawned /\ ~labelme[i].exited
    /\ labelme' = [labelme EXCEPT ![i].exited = TRUE]
    /\ UNCHANGED <<fsDirs, fsFiles, fsVideo, listOrder, environ, video_path_input,
                   output_dir_input, convert_btn, status_label, progress_bar,
                   worker, queue, child, probe>>

-----------------------------------------------------------------------------
(* The environment: files that come and go while the program runs *)

\* the video file is removed or created
VideoChange(video_path) ==
    /\ fsVideo' = [fsVideo EXCEPT ![video_path] = ~@]
    /\ UNCHANGED <<fsDirs, fsFiles, listOrder, environ, video_path_input,
                   output_dir_input, convert_btn, status_label, progress_bar,
                   worker, queue, child, labelme, probe>>

\* an executable is installed, removed, or has its mode changed
ToolChange(path, kind) ==
    /\ fsFiles[path] # kind
    /\ fsFiles' = [fsFiles EXCEPT ![path] = kind]
    /\ UNCHANGED <<fsDirs, fsVideo, listOrder, environ, video_path_input,
                   output_dir_input, convert_btn, status_label, progress_bar,
                   worker, queue, child, labelme, probe>>

\* a directory is deleted with all it holds
DirRemove(path) ==
    /\ fsDirs[path].kind = "dir"
    /\ fsDirs' = [fsDirs EXCEPT ![path] = AbsentDir]
    /\ UNCHANGED <<fsFiles, fsVideo, listOrder, environ, video_path_input,
                   output_dir_input, convert_btn, status_label, progress_bar,
                   worker, queue, child, labelme, probe>>

-----------------------------------------------------------------------------
(* The program *)

\* The user picks files in the dialogs
Choose ==
    \/ \E video_path \in Videos \cup {""} : choose_video(video_path)
    \/ \E output_dir \in {DirPathOut, ""} : choose_output_dir(output_dir)

\* The conversion pipeline: the convert button, the worker thread, its child
\* process and the delivery of its signals
Convert ==
    \/ \E answer \in {"Yes", "No"} : start_conversion(answer)
    \/ on_progress_changed
    \/ on_status_changed
    \/ on_finished_ok
    \/ on_failed
    \/ ConvertStart
    \/ ConvertFinish
    \/ \E returncode \in {0, 1}, stderr \in ExtractorStderr, out \in ExtractorOutputs :
          ExtractorExit(returncode, stderr, out)

\* The annotation tool: the launch button, the launcher threads and the
\* delivery of their signals
Launch ==
    \/ launch_labelme
    \/ \E i \in 1..Len(labelme) : LabelmeRun(i)
    \/ \E i \in 1..Len(labelme) : LabelmeExit(i)
    \/ \E i \in 1..Len(labelme) : on_labelme_started(i)
    \/ \E i \in 1..Len(labelme) : on_labelme_failed(i)

\* Files the conversion reads come and go
ConvertEnv ==
    \/ \E video_path \in Videos : VideoChange(video_path)
    \/ \E kind \in {"missing", "plain", "exec"} : ToolChange(VaryingFfmpeg, kind)
    \/ \E path \in DirPaths : DirRemove(path)

\* The launcher executable comes and goes
LaunchEnv ==
    \E kind \in {"missing", "exec"} : ToolChange(VaryingUvx, kind)

\* The conversion pipeline in a changing file system
Next == Choose \/ Convert \/ ConvertEnv

Spec == Init /\ [][Next]_vars

\* The conversion pipeline while the files it reads stay as they are; the
\* worker thread is scheduled, and the extractor child process exits
NextRun == Choose \/ Convert

FairSpec ==
    /\ Init /\ [][NextRun]_vars
    /\ WF_vars(ConvertStart)
    /\ WF_vars(ConvertFinish)
    /\ WF_vars(\E returncode \in {0, 1}, stderr \in ExtractorStderr,
                  out \in ExtractorOutputs : ExtractorExit(returncode, stderr, out))

\* FairSpec with the Qt event loop of the GUI thread running: a queued signal
\* of the worker is delivered to its slot
FairGuiSpec ==
    /\ FairSpec
    /\ WF_vars(on_progress_changed)
    /\ WF_vars(on_status_changed)
    /\ WF_vars(on_finished_ok)
    /\ WF_vars(on_failed)

\* A directory a crashed run left, in which .thumb.JPG cannot be removed
ProtectedDir ==
    [PriorRunDir EXCEPT !.entries[N_thumbUpper] = "locked"]

\* A directory a crashed run left, which cannot be listed
UnreadableDir == [PriorRunDir EXCEPT !.readable = FALSE]

\* The whole window, conversion and launch interleaved; the video and the
\* extractor stay in place, and the extractor writes nothing on its error stream
InitApp ==
    /\ GuiInit
    /\ \E d \in {PriorRunDir, ProtectedDir, UnreadableDir} :
          fsDirs = [p \in DirPaths |-> IF p = DirPathA THEN d ELSE PriorRunDir]
    /\ fsFiles = [AllMissing EXCEPT ![VaryingFfmpeg] = "exec", ![VaryingUvx] = "exec"]
    /\ fsVideo = [v \in Videos |-> TRUE]
    /\ listOrder = ListOrder1
    /\ environ = [v \in {"FFMPEG_PATH", "UVX_PATH", "LANG", "HOME"} |->
                     CASE v = "LANG" -> <<"en_US.UTF-8">>
                       [] v = "HOME" -> <<"/home/user">>
                       [] OTHER -> <<>>]

\* what the extractor leaves in the directory in the runs of the whole window
ExtractorOutputsApp ==
    { [names |-> {}, frames |-> 0],
      [names |-> {N_frame0, N_partial}, frames |-> 0] }

\* The conversion pipeline as in Convert, the extractor exiting silently
ConvertApp ==
    \/ \E answer \in {"Yes", "No"} : start_conversion(answer)
    \/ on_progress_changed
    \/ on_status_changed
    \/ on_finished_ok
    \/ on_failed
    \/ ConvertStart
    \/ ConvertFinish
    \/ \E returncode \in {0, 1}, out \in ExtractorOutputsApp :
          ExtractorExit(returncode, <<>>, out)

NextApp == Choose \/ ConvertApp \/ Launch \/ LaunchEnv

SpecApp == InitApp /\ [][NextApp]_vars

-----------------------------------------------------------------------------
(* The cleanup pass on its own, over every content of the directory *)

\* how many passes are run in succession
MaxPasses == 2

\* the window and the threads as GuiInit leaves them, but for the two line edits
Idle ==
    /\ convert_btn = TRUE
    /\ status_label = ""
    /\ progress_bar = [busy |-> FALSE, value |-> 0]
    /\ worker = NoWorker
    /\ queue = <<>>
    /\ child = NoChild
    /\ labelme = <<>>
    /\ probe = NoProbe

\* every directory over the names, with no or a few more frames
AnyDir ==
    {AbsentDir, FileAtPath} \cup
    [kind : {"dir"}, readable : BOOLEAN, entries : [Names -> EntryKinds], frames : {0, 3}]

InitDir ==
    /\ Idle
    /\ video_path_input = <<VideoA>>
    /\ output_dir_input = <<DirPathA>>
    /\ \E d \in AnyDir : fsDirs = [p \in DirPaths |-> IF p = DirPathA THEN d ELSE AbsentDir]
    /\ fsFiles = AllMissing
    /\ fsVideo = [v \in Videos |-> TRUE]
    /\ listOrder \in ListOrders
    /\ environ = [v \in {"FFMPEG_PATH", "UVX_PATH"} |-> <<>>]

\* One call of MainWindow._cleanup_dot_jpgs; probe keeps the directories as they
\* were before the first pass and before this one
ReconcilePass ==
    /\ probe.op = "none" \/ (probe.op = "cleanup" /\ probe.passes < MaxPasses)
    /\ fsDirs' = _cleanup_dot_jpgs(fsDirs, output_dir_input, listOrder)
    /\ probe' = [op |-> "cleanup",
                 passes |-> IF probe.op = "cleanup" THEN probe.passes + 1 ELSE 1,
                 first |-> IF probe.op = "cleanup" THEN probe.first ELSE fsDirs,
                 before |-> fsDirs]
    /\ UNCHANGED <<fsFiles, fsVideo, listOrder, environ, video_path_input,
                   output_dir_input, convert_btn, status_label, progress_bar,
                   worker, queue, child, labelme>>

NextDir == ReconcilePass

SpecDir == InitDir /\ [][NextDir]_vars

-----------------------------------------------------------------------------
(* The tool lookup on its own, over every state of the candidate files *)

\* values of an override variable: unset or empty, blank, the custom path, the
\* custom path with blanks around it, the last candidate of the list
OverrideTexts(custom, candidates) ==
    { <<>>, <<" ">>, <<custom>>, <<" ", custom, "\n">>, <<candidates[Len(candidates)]>> }

InitLocate ==
    /\ Idle
    /\ video_path_input = <<>>
    /\ output_dir_input = <<>>
    /\ fsDirs = [p \in DirPaths |-> AbsentDir]
    /\ fsVideo = [v \in Videos |-> TRUE]
    /\ listOrder = ListOrder1
    /\ \/ /\ \E g \in [FfmpegPaths -> FileKinds] :
                fsFiles = [p \in ToolPaths |-> IF p \in FfmpegPaths THEN g[p] ELSE "missing"]
          /\ \E t \in OverrideTexts(CustomFfmpeg, FfmpegCandidates) :
                environ = [v \in {"FFMPEG_PATH", "UVX_PATH"} |->
                              IF v = "FFMPEG_PATH" THEN t ELSE <<>>]
       \/ /\ \E g \in [UvxPaths -> FileKinds] :
                fsFiles = [p \in ToolPaths |-> IF p \in UvxPaths THEN g[p] ELSE "missing"]
          /\ \E t \in OverrideTexts(CustomUvx, UvxCandidates) :
                environ = [v \in {"FFMPEG_PATH", "UVX_PATH"} |->
                              IF v = "UVX_PATH" THEN t ELSE <<>>]

\* One call of MainWindow._find_ffmpeg
ResolveFfmpeg ==
    /\ probe' = [op |-> "find", variable |-> "FFMPEG_PATH",
                 candidates |-> FfmpegCandidates,
                 path |-> _find_ffmpeg(environ, fsFiles)]
    /\ UNCHANGED <<fsDirs, fsFiles, fsVideo, listOrder, environ, video_path_input,
                   output_dir_input, convert_btn, status_label, progress_bar,
                   worker, queue, child, labelme>>

\* One call of MainWindow._find_uvx
ResolveUvx ==
    /\ probe' = [op |-> "find", variable |-> "UVX_PATH",
                 candidates |-> UvxCandidates,
                 path |-> _find_uvx(environ, fsFiles)]
    /\ UNCHANGED <<fsDirs, fsFiles, fsVideo, listOrder, environ, video_path_input,
                   output_dir_input, convert_btn, status_label, progress_bar,
                   worker, queue, child, labelme>>

NextLocate == ResolveFfmpeg \/ ResolveUvx

SpecLocate == InitLocate /\ [][NextLocate]_vars

-----------------------------------------------------------------------------
(* Properties of the cleanup pass (SpecDir) *)

\* the directories did not change but in the named entries of directory path
OnlyEntriesChanged(before, after, path) ==
    \A p \in DirPaths :
        /\ after[p].kind = before[p].kind
        /\ after[p].readable = before[p].readable
        /\ after[p].frames = before[p].frames
        /\ p # path => after[p].entries = before[p].entries

\* C7: the cleanup pass is idempotent: a second pass run right after a first
\* one, with no write in between, leaves every directory as the first pass
\* left it.
C7_ReconcileIdempotent ==
    (probe.op = "cleanup" /\ probe.passes >= 2) => fsDirs = probe.before

\* Two passes were run, the first removed .partial_0001.jpg, and a hidden .JPG
\* whose removal fails is still there.
C7_Witness ==
    /\ probe.op = "cleanup" /\ probe.passes = 2
    /\ probe.first[DirPathA].entries[N_partial] = "file"
    /\ fsDirs[DirPathA].entries[N_partial] = "none"
    /\ fsDirs[DirPathA].entries[N_thumbUpper] = "locked"

\* C8 as stated, for a pass in which neither the listing nor a removal fails:
\* after the pass the directory holds exactly what it held, minus the regular
\* files whose name begins with "." and ends with ".jpg".
C8_RemovesExactlyDotJpgFiles ==
    ( /\ probe.op = "cleanup"
      /\ probe.before[DirPathA].kind = "dir"
      /\ probe.before[DirPathA].readable
      /\ \A n \in Names : probe.before[DirPathA].entries[n] # "locked" ) =>
        /\ OnlyEntriesChanged(probe.before, fsDirs, DirPathA)
        /\ \A n \in Names :
              fsDirs[DirPathA].entries[n] =
                  IF /\ probe.before[DirPathA].entries[n] = "file"
                     /\ StartsWith(n, DOT) /\ EndsWith(n, DOT_JPG)
                  THEN "none"
                  ELSE probe.before[DirPathA].entries[n]

\* C8 amended: a pass removes only regular files whose name begins with "." and
\* ends with ".jpg" in any letter case, and changes nothing else (canonical
\* frames, unrelated files, directories stay); it removes all of them when the
\* directory can be listed and none of the removals fails.
C8_RemovesOnlyHiddenJpgFiles ==
    probe.op = "cleanup" =>
        LET old == probe.before[DirPathA].entries
            new == fsDirs[DirPathA].entries
            hidden(n) == StartsWith(n, DOT) /\ EndsWith(Lower(n), DOT_JPG)
        IN
        /\ OnlyEntriesChanged(probe.before, fsDirs, DirPathA)
        /\ \A n \in Names :
              new[n] # old[n] => (old[n] = "file" /\ hidden(n) /\ new[n] = "none")
        /\ ( /\ probe.before[DirPathA].kind = "dir"
             /\ probe.before[DirPathA].readable
             /\ \A n \in Names : hidden(n) => old[n] # "locked" )
           => \A n \in Names : (old[n] = "file" /\ hidden(n)) => new[n] = "none"

\* A pass removed .partial_0001.jpg and .thumb.JPG and left img_00000.jpg,
\* img_x.jpg and notes.txt in place.
C8_Witness ==
    /\ probe.op = "cleanup" /\ probe.passes = 1
    /\ probe.before[DirPathA].entries[N_partial] = "file"
    /\ probe.before[DirPathA].entries[N_thumbUpper] = "file"
    /\ fsDirs[DirPathA].entries[N_partial] = "none"
    /\ fsDirs[DirPathA].entries[N_thumbUpper] = "none"
    /\ fsDirs[DirPathA].entries[N_frame0] = "file"
    /\ fsDirs[DirPathA].entries[N_imgx] = "dir"
    /\ fsDirs[DirPathA].entries[N_notes] = "file"

-----------------------------------------------------------------------------
(* Properties of the tool lookup (SpecLocate) *)

\* path is an existing executable regular file
ExecutableFile(path) == path \in DOMAIN fsFiles /\ fsFiles[path] = "exec"

\* the path the override variable of the last lookup names, blanks trimmed
OverridePath == Str(Strip(environ[probe.variable]))

\* C9: the lookup returns the override whenever the override names an existing
\* executable file, whatever the candidate list holds, and returns None when
\* neither the override nor any candidate is an executable file.
C9_OverridePreferred ==
    probe.op = "find" =>
        /\ ExecutableFile(OverridePath) => probe.path = OverridePath
        /\ ( /\ ~ExecutableFile(OverridePath)
             /\ \A i \in 1..Len(probe.candidates) : ~ExecutableFile(probe.candidates[i]) )
           => probe.path = None

\* The override (written with blanks around it) and the first candidate are
\* both executable files, and the lookup returned the override.
C9_Witness ==
    /\ probe.op = "find" /\ probe.variable = "FFMPEG_PATH"
    /\ environ["FFMPEG_PATH"] = <<" ", CustomFfmpeg, "\n">>
    /\ ExecutableFile(CustomFfmpeg)
    /\ ExecutableFile(FfmpegCandidates[1])
    /\ probe.path = CustomFfmpeg

\* C10: an override that names no existing executable file is passed over and
\* the first candidate, in list order, that is an executable file is returned;
\* whatever path the lookup returns is an existing executable file.
C10_FallsThroughToFirstCandidate ==
    probe.op = "find" =>
        /\ ~ExecutableFile(OverridePath) =>
              \A i \in 1..Len(probe.candidates) :
                  ( /\ ExecutableFile(probe.candidates[i])
                    /\ \A j \in 1..(i - 1) : ~ExecutableFile(probe.candidates[j]) )
                  => probe.path = probe.candidates[i]
        /\ probe.path # None => ExecutableFile(probe.path)

\* The override names a file without the execute bit, the first candidate is a
\* file without it too, the second and the third are executable: the second
\* was returned.
C10_Witness ==
    /\ probe.op = "find" /\ probe.variable = "UVX_PATH"
    /\ OverridePath = CustomUvx /\ fsFiles[CustomUvx] = "plain"
    /\ fsFiles[UvxCandidates[1]] = "plain"
    /\ ExecutableFile(UvxCandidates[2])
    /\ ExecutableFile(UvxCandidates[3])
    /\ probe.path = UvxCandidates[2]

-----------------------------------------------------------------------------
(* Properties of one conversion run (Spec, FairSpec) *)

Last(seq) == seq[Len(seq)]

IsOutcome(signal) == signal.sig \in {"finished_ok", "failed"}

\* the positions of the outcome signals among the signals of the run
Outcomes(emitted) == {i \in 1..Len(emitted) : IsOutcome(emitted[i])}

\* the worker thread takes the step ConvertStart
StartStep == worker.pc = "started" /\ worker'.pc # "started"

\* the worker thread takes the step ConvertFinish
FinishStep == worker.pc = "waiting" /\ worker'.pc = "done"

\* C1: a run never emits more than one outcome, emits none before it ends,
\* ends with exactly one outcome, which is the last signal it emits, and every
\* run that was started ends (the worker thread being scheduled and the
\* extractor child process exiting).
C1_ExactlyOneOutcome ==
    /\ [](/\ Cardinality(Outcomes(worker.emitted)) <= 1
          /\ worker.pc \in {"started", "waiting"} => Outcomes(worker.emitted) = {}
          /\ worker.pc = "done" => Outcomes(worker.emitted) = {Len(worker.emitted)})
    /\ (worker.pc = "started") ~> (worker.pc = "done")

\* A run whose source exists and whose extractor was found and exited ended
\* in Success, after the starting signals.
C1_Witness ==
    /\ worker.pc = "done"
    /\ fsVideo[worker.request.video_path]
    /\ Len(worker.emitted) = 5
    /\ Last(worker.emitted).sig = "finished_ok"

\* the regular files of the directory whose names match img_NNNNN.jpg
CanonicalCount(dir) ==
    Cardinality({n \in Names : dir.entries[n] \in {"file", "locked"} /\ IsCanonicalName(n)})
    + dir.frames

\* C2 as stated: when a run ends in Success(n), n is the number of files of the
\* destination directory whose names match img_NNNNN.jpg.
C2_SuccessCountsCanonicalFiles ==
    [][(FinishStep /\ Last(worker'.emitted).sig = "finished_ok") =>
           Last(worker'.emitted).n = CanonicalCount(fsDirs[worker.request.output_dir])]_vars

\* C3: a run whose extractor exited with status zero and whose counted frames
\* exceed 999999 ends in Failure, and Success(n) is emitted only with
\* n <= 999999.
C3_CeilingEnforced ==
    [][ /\ \A i \in 1..Len(worker'.emitted) :
              worker'.emitted[i].sig = "finished_ok" => worker'.emitted[i].n <= 999999
        /\ ( /\ FinishStep
             /\ child.returncode = 0
             /\ _count_frames(fsDirs, worker.request.output_dir, listOrder) > 999999 )
           => ( /\ Last(worker'.emitted).sig = "failed"
                /\ \A i \in 1..Len(worker'.emitted) :
                      worker'.emitted[i].sig # "finished_ok" ) ]_vars

\* A run ended in Failure with one frame more than the ceiling in its directory.
C3_Witness ==
    /\ worker.pc = "done"
    /\ Last(worker.emitted) = Signal("failed", 0, MSG_TOO_MANY)
    /\ _count_frames(fsDirs, worker.request.output_dir, listOrder) = 1000000

\* C4 as stated, for a run whose source exists: when the extractor path of the
\* request is no file, the run ends in Failure(tool not found) and the
\* directories are as they were before the run.
C4_NoToolNoFilesystemChange ==
    [][( /\ StartStep
         /\ fsVideo[worker.request.video_path]
         /\ ~IsFile(fsFiles, worker.request.ffmpeg_path) )
       => ( /\ worker'.emitted = <<Signal("failed", 0, MSG_NO_FFMPEG)>>
            /\ fsDirs' = fsDirs )]_vars

\* C5: when the source does not exist the run ends at once in
\* Failure(source not found): failed is the only signal of the run, no child
\* process is started and no directory is created.
C5_MissingSourceFailsAtOnce ==
    [][(StartStep /\ ~fsVideo[worker.request.video_path])
       => ( /\ worker'.pc = "done"
            /\ worker'.emitted = <<Signal("failed", 0, MSG_NO_VIDEO)>>
            /\ child' = NoChild /\ child = NoChild
            /\ fsDirs' = fsDirs )]_vars

\* A run ended in Failure(source not found) with nothing else emitted, while
\* the extractor was in place and the destination directory did not exist.
C5_Witness ==
    /\ worker.pc = "done"
    /\ worker.emitted = <<Signal("failed", 0, MSG_NO_VIDEO)>>
    /\ ~fsVideo[worker.request.video_path]
    /\ fsFiles[worker.request.ffmpeg_path] = "exec"
    /\ fsDirs[worker.request.output_dir].kind = "absent"
    /\ child = NoChild

\* C6 as stated, for a run whose source exists: when the extractor path of the
\* request is not an existing executable file, the run ends in
\* Failure(tool not found) with no other signal and no child process started.
C6_ToolCheckedBeforeWork ==
    [][( /\ StartStep
         /\ fsVideo[worker.request.video_path]
         /\ fsFiles[worker.request.ffmpeg_path] # "exec" )
       => ( /\ worker'.emitted = <<Signal("failed", 0, MSG_NO_FFMPEG)>>
            /\ child' = NoChild )]_vars

\* the non-blank words of a text
Words(text) == SelectSeq(text, LAMBDA c : c \notin Blank)

\* C11: when the extractor child process exits with a non-zero status the run
\* ends in Failure carrying the trimmed text of its error stream, or the
\* generic message when that text is empty after trimming; the frames are not
\* counted (the message does not depend on what the directory holds), and the
\* run emits neither Percent(100), StatusText(done) nor Success.
C11_NonZeroExitFails ==
    [][(FinishStep /\ child.returncode # 0)
       => ( /\ worker'.emitted = worker.emitted \o
                  << Signal("failed", 0, IF Words(child.stderr) = <<>>
                                         THEN MSG_FFMPEG_FAILED
                                         ELSE Words(child.stderr)[1]) >>
            /\ \A i \in 1..Len(worker'.emitted) :
                  /\ worker'.emitted[i] # Signal("progress_changed", 100, "")
                  /\ worker'.emitted[i] # Signal("status_changed", 0, MSG_DONE)
                  /\ worker'.emitted[i].sig # "finished_ok" )]_vars

\* A run ended in Failure carrying the trimmed error text of the extractor,
\* after the starting signals only, with more frames than the ceiling in its
\* directory.
C11_Witness ==
    /\ worker.pc = "done"
    /\ worker.emitted = StartingSignals \o <<Signal("failed", 0, "Invalid data found")>>
    /\ _count_frames(fsDirs, worker.request.output_dir, listOrder) > 999999

-----------------------------------------------------------------------------
(* Properties of the window: cleanup, launch and conversion interleaved
   (SpecApp) *)

\* the launch button finds its tool and a launcher thread can be started
LaunchReady ==
    /\ Len(labelme) < MaxLabelme
    /\ _find_uvx(environ, fsFiles) \notin {None, ""}

\* the Success signal of the run is the next signal to be delivered
SuccessPending == queue # <<>> /\ Head(queue).sig = "finished_ok"

\* C12: the cleanup pass never raises to its caller, whatever error it meets
\* while listing the directory or removing a file: the handler of Success
\* goes on to enable the convert button and to show the completion status,
\* and the launch handler goes on to start the launcher thread.
C12_ReconcileErrorsSwallowed ==
    /\ ~CleanupRaises(fsDirs, output_dir_input, listOrder)
    /\ SuccessPending =>
          ENABLED ( /\ on_finished_ok
                    /\ convert_btn' = TRUE
                    /\ status_label' = FinishedText(Head(queue).n)
                    /\ progress_bar' = [busy |-> FALSE, value |-> 100] )
    /\ LaunchReady =>
          ENABLED ( /\ launch_labelme
                    /\ status_label' = MSG_LABELME_STARTING
                    /\ Len(labelme') = Len(labelme) + 1 )

\* The directory the line edit names holds a hidden .JPG whose removal fails;
\* the Success of a run into it was handled (button enabled, progress at 100)
\* and the annotation tool was spawned.
C12_Witness ==
    /\ CleanupErrors(fsDirs, output_dir_input, listOrder) = {"os.remove"}
    /\ worker.pc = "done" /\ queue = <<>>
    /\ Last(worker.emitted).sig = "finished_ok"
    /\ worker.request.output_dir = Str(Strip(output_dir_input))
    /\ convert_btn /\ progress_bar = [busy |-> FALSE, value |-> 100]
    /\ labelme # <<>> /\ labelme[1].spawned

\* the Failure signal of the run is the next signal to be delivered
FailurePending == queue # <<>> /\ Head(queue).sig = "failed"

\* the GUI thread handles the signal at the head of the queue
Delivery == queue # <<>> /\ queue' = Tail(queue)

\* the step runs one cleanup pass on the directory the line edit names
ReconcileInvoked == fsDirs' = _cleanup_dot_jpgs(fsDirs, output_dir_input, listOrder)

\* C13: a cleanup pass is run by every launch (the step that starts a launcher
\* thread, the only place the annotation tool is spawned from, runs the pass
\* itself) and by the handling of every Success; a Success that was emitted
\* stays queued until it is handled; the handling of a Failure runs no pass
\* (it leaves every directory as it is).
C13_ReconcileAtSuccessAndLaunch ==
    /\ [][ /\ Len(labelme') > Len(labelme) => ReconcileInvoked
           /\ \A i \in 1..Len(labelme) :
                 ( /\ Len(labelme') = Len(labelme)
                   /\ ~labelme[i].spawned /\ labelme'[i].spawned )
                 => labelme[i].pc = "started"
           /\ (SuccessPending /\ Delivery) => ReconcileInvoked
           /\ (FailurePending /\ Delivery) => fsDirs' = fsDirs ]_vars
    /\ []( ( /\ worker.pc = "done"
             /\ Last(worker.emitted).sig = "finished_ok"
             /\ ~convert_btn )
           => \E i \in 1..Len(queue) : queue[i].sig = "finished_ok" )

\* No conversion was ever started, the annotation tool was spawned, and the
\* hidden .partial_0001.jpg an earlier run had left in the directory the line
\* edit names is gone.
C13_Witness ==
    /\ worker = NoWorker
    /\ labelme # <<>> /\ labelme[1].spawned
    /\ output_dir_input = <<DirPathA>>
    /\ fsDirs[DirPathA].entries[N_partial] = "none"

\* the i-th launcher thread takes the step LabelmeRun
LaunchStep(i) ==
    /\ Len(labelme') = Len(labelme)
    /\ labelme[i].pc = "started" /\ labelme'[i].pc = "done"

\* C14: a launcher thread reports exactly one result: nothing before it has
\* run, and then either Started, emitted in the very step that spawns the
\* annotation tool, while the tool is running (its exit is not waited for),
\* or Failure with a message when the spawn raises, and no tool is spawned;
\* the tool gets the environment of the program with LANG, LC_ALL and
\* LANGUAGE set to zh_CN.UTF-8; which result it is depends on the launcher
\* executable only, and the step leaves the conversion pipeline as it is.
C14_LaunchReportsOnce ==
    /\ [](\A i \in 1..Len(labelme) :
             LET thread == labelme[i] IN
             /\ thread.pc = "started" => (thread.emitted = <<>> /\ ~thread.spawned)
             /\ thread.pc = "done" =>
                   /\ Len(thread.emitted) = 1
                   /\ thread.emitted[1].sig \in {"started_ok", "failed"}
                   /\ thread.spawned <=> thread.emitted[1].sig = "started_ok"
                   /\ thread.emitted[1].sig = "failed" => thread.emitted[1].text # ""
             /\ thread.spawned =>
                   /\ \A v \in {"LANG", "LC_ALL", "LANGUAGE"} :
                         thread.env[v] = <<"zh_CN.UTF-8">>
                   /\ \A v \in DOMAIN environ \ {"LANG", "LC_ALL", "LANGUAGE"} :
                         thread.env[v] = environ[v])
    /\ [][\A i \in 1..Len(labelme) :
             LaunchStep(i) =>
                 /\ labelme'[i].spawned <=> fsFiles[labelme[i].uvx_path] = "exec"
                 /\ labelme'[i].spawned => ~labelme'[i].exited
                 /\ UNCHANGED <<worker, queue, child, convert_btn, fsDirs>> ]_vars

\* The annotation tool was spawned, with the locale forced over the LANG of
\* the program, and Started was emitted while a conversion was waiting for
\* its extractor and the tool was still running.
C14_Witness ==
    /\ worker.pc = "waiting" /\ child.state = "running"
    /\ environ["LANG"] = <<"en_US.UTF-8">>
    /\ labelme # <<>>
    /\ labelme[1].spawned /\ ~labelme[1].exited
    /\ labelme[1].emitted = <<Signal("started_ok", 0, "")>>
    /\ labelme[1].env["LANG"] = <<"zh_CN.UTF-8">>
    /\ labelme[1].env["HOME"] = <<"/home/user">>

-----------------------------------------------------------------------------
(* The order of the signals of a run (Spec) *)

\* the fixed order: Indeterminate, StatusText(starting), Percent(100),
\* StatusText(done), Success(n)
FixedOrder(n) ==
    << Signal("progress_changed", -1, ""),
       Signal("status_changed", 0, "conversion starting..."),
       Signal("progress_changed", 100, ""),
       Signal("status_changed", 0, "conversion done"),
       Signal("finished_ok", n, "") >>

Prefix(seq, k) == SubSeq(seq, 1, k)

\* the checks the run makes before it emits anything pass: the source exists,
\* the directory is there or can be created, the extractor path is a file
PreconditionsPass ==
    /\ fsVideo[worker.request.video_path]
    /\ fsDirs[worker.request.output_dir].kind # "file"
    /\ fsFiles[worker.request.ffmpeg_path] \in {"plain", "exec"}

\* C15: the signals of a run are, in order, a prefix of Indeterminate,
\* StatusText(starting), Percent(100), StatusText(done), Success(n), ended
\* either by Success as the fifth signal or, after at most the first two, by
\* one Failure with nothing after it; Percent(100) is followed at once by
\* StatusText(done) and Success, StatusText(done) by Success; a run whose
\* preconditions pass emits Indeterminate first, and a step that ends the run
\* in Failure after the extractor has exited emits the Failure only.
C15_EventOrder ==
    /\ [](LET e == worker.emitted IN
          /\ \/ \E k \in 0..2 : e = Prefix(FixedOrder(0), k)
             \/ \E k \in 0..2 :
                   /\ Len(e) = k + 1
                   /\ Prefix(e, k) = Prefix(FixedOrder(0), k)
                   /\ e[k + 1] = Signal("failed", 0, e[k + 1].text)
             \/ Len(e) = 5 /\ e = FixedOrder(e[5].n)
          /\ \A i \in 1..Len(e) :
                /\ e[i] = Signal("progress_changed", 100, "")
                      => ( /\ i + 2 = Len(e)
                           /\ e[i + 1] = Signal("status_changed", 0, "conversion done")
                           /\ e[i + 2].sig = "finished_ok" )
                /\ e[i] = Signal("status_changed", 0, "conversion done")
                      => (i + 1 = Len(e) /\ e[i + 1].sig = "finished_ok")
                /\ e[i].sig = "failed" => i = Len(e))
    /\ [][ /\ (StartStep /\ PreconditionsPass)
                => ( /\ worker'.emitted # <<>>
                     /\ worker'.emitted[1] = Signal("progress_changed", -1, "") )
           /\ (FinishStep /\ Last(worker'.emitted).sig = "failed")
                => Len(worker'.emitted) = Len(worker.emitted) + 1 ]_vars

\* A run ended in Success(2) after exactly the four signals before it, in the
\* fixed order.
C15_Witness ==
    /\ worker.pc = "done"
    /\ worker.emitted = FixedOrder(2)
    /\ queue = <<>> /\ convert_btn

-----------------------------------------------------------------------------
(* The directory of a run while the run is active (SpecApp) *)

\* the worker thread has been started and has not ended
RunActive == worker.pc \in {"started", "waiting"}

\* the step is one of the conversion: the worker thread or its child process
ConversionStep == worker' # worker \/ child' # child

\* C16 as stated: while a run is active, every step that changes its
\* destination directory is a step of that conversion (the worker thread or
\* its extractor child process); no cleanup pass removes a file from it.
C16_DirectoryExclusiveMidRun ==
    [][( /\ RunActive
         /\ fsDirs'[worker.request.output_dir] # fsDirs[worker.request.output_dir] )
       => ConversionStep]_vars

\* C17 as stated: the handling of Success runs the cleanup pass on the
\* destination directory of the run that succeeded, the output_dir of its
\* request, whatever the line edits hold by then: the hidden .jpg files of
\* that directory are removed and no other directory is touched.
C17_SuccessCleansRequestDirectory ==
    [][(SuccessPending /\ Delivery)
       => fsDirs' = _cleanup_dot_jpgs(fsDirs, <<worker.request.output_dir>>, listOrder)]_vars

-----------------------------------------------------------------------------
(* The convert button and the worker (FairGuiSpec) *)

\* the terminal signal of the run is emitted and not yet handled
OutcomePending == \E i \in 1..Len(queue) : IsOutcome(queue[i])

\* a worker is created and started
WorkerStarted == worker' # worker /\ worker'.pc = "started"

\* start_conversion returns at one of its three alerts
InputMissing ==
    \/ Str(Strip(video_path_input)) = ""
    \/ Str(Strip(output_dir_input)) = ""
    \/ _find_ffmpeg(environ, fsFiles) \in {None, ""}

\* start_conversion asks whether to overwrite
OverwriteAsked ==
    /\ ~InputMissing
    /\ PathExists(fsDirs, Str(Strip(output_dir_input)))
    /\ ~ListdirRaises(fsDirs, Str(Strip(output_dir_input)))
    /\ ListdirNonEmpty(fsDirs, Str(Strip(output_dir_input)), listOrder)

\* C18: at most one worker is active at a time.  The convert button is
\* disabled exactly while a run is active or its terminal signal is not yet
\* handled; a worker is started only by a step taken while the button is
\* enabled and no run is active, and that step disables it; the handling of
\* a terminal signal enables it, and every disabled button is enabled again;
\* a step that starts no worker leaves an enabled button enabled, and no
\* worker is started when an input is missing, the extractor is not found or
\* the user declines to overwrite.
C18_OneWorkerAtATime ==
    /\ [](~convert_btn <=> (RunActive \/ OutcomePending))
    /\ [](OutcomePending => worker.pc = "done")
    /\ [][ /\ WorkerStarted
                => (convert_btn /\ ~convert_btn' /\ worker.pc \in {"none", "done"})
           /\ (queue # <<>> /\ IsOutcome(Head(queue)) /\ Delivery) => convert_btn'
           /\ (convert_btn /\ ~WorkerStarted) => convert_btn' ]_vars
    /\ [](InputMissing =>
             ~ENABLED (\E answer \in {"Yes", "No"} :
                          start_conversion(answer) /\ worker' # worker))
    /\ [](OverwriteAsked => ~ENABLED (start_conversion("No") /\ worker' # worker))
    /\ (~convert_btn) ~> convert_btn

\* A run was started (the button was disabled), ended in Failure after its
\* extractor had exited, and the Failure was handled: no signal is pending
\* and the button is enabled again.
C18_Witness ==
    /\ convert_btn
    /\ worker.pc = "done"
    /\ Len(worker.emitted) = 3 /\ Last(worker.emitted).sig = "failed"
    /\ queue = <<>>
    /\ progress_bar = [busy |-> FALSE, value |-> 0]

-----------------------------------------------------------------------------
(* The frame count and the cleanup pass (SpecDir, SpecApp) *)

\* C19: no name is both counted as a frame and selected by the cleanup pass,
\* and for every content of the directory _count_frames gives the same
\* number before a cleanup pass and after it, so that the count a run
\* reported in Success(n) is still the count of the directory once the pass
\* has run.
C19_ReconcileKeepsFrameCount ==
    /\ \A n \in Names : ~(CountsAsFrame(n) /\ IsDotJpg(n))
    /\ probe.op = "cleanup" =>
          /\ _count_frames(fsDirs, DirPathA, listOrder)
                = _count_frames(probe.before, DirPathA, listOrder)
          /\ \A n \in Names :
                CountsAsFrame(n) =>
                    fsDirs[DirPathA].entries[n] = probe.before[DirPathA].entries[n]

\* A pass removed two hidden files from a directory with two named frames and
\* three more: five frames are counted before and after.
C19_Witness ==
    /\ probe.op = "cleanup" /\ probe.passes = 1
    /\ probe.before[DirPathA].entries[N_partial] = "file"
    /\ probe.before[DirPathA].entries[N_thumbUpper] = "file"
    /\ fsDirs[DirPathA].entries[N_partial] = "none"
    /\ fsDirs[DirPathA].entries[N_thumbUpper] = "none"
    /\ _count_frames(probe.before, DirPathA, listOrder) = 5
    /\ _count_frames(fsDirs, DirPathA, listOrder) = 5

\* The consequence of C19 in the running window (SpecApp): when Success(n) is
\* handled, n is the count of the run's directory after the pass of the handler.
SuccessCountSurvivesCleanup ==
    [][(SuccessPending /\ Delivery)
       => Head(queue).n = _count_frames(fsDirs', worker.request.output_dir, listOrder)]_vars

====
